---- MODULE Spec2Model ----
(***************************************************************************)
(* Model of tools/codegen/pkg/swaggerdocs/swaggerdocs.go:                  *)
(* verifySwaggerDocs and generateSwaggerDocs, together with the three      *)
(* library calls they make (kruntime.VerifySwaggerDocsExist,               *)
(* kruntime.WriteSwaggerDocFunc, format.Source) and the file they read.    *)
(*                                                                         *)
(* Bytes are modelled as sequences of symbols.  A symbol is either a       *)
(* single character of a name or of a description, a white-space           *)
(* character, or a literal fragment of the emitted Go text that is kept    *)
(* as one unit.                                                            *)
(***************************************************************************)
EXTENDS Integers, Sequences, FiniteSets

\* Largest number of (name, doc) pairs in one docsForTypes collection.
MaxPairs == 2

\* ------------------------------------------------------------------ data

\* swaggerdocs.go:17-28.  The header is two symbols: the provenance notes
\* and the start marker line that ends the block.
headerContent ==
    << "// This file contains a collection of methods ... hack/update-swagger-docs.sh\n\n",
       "// AUTO-GENERATED FUNCTIONS START HERE\n" >>

\* swaggerdocs.go:31
footerContent == << "// AUTO-GENERATED FUNCTIONS END HERE\n" >>

IdentChars == {"p", "A", "f", "d"}

\* packageName arguments: the empty name (not a Go identifier) and a valid one.
PackageNames == { <<>>, <<"p">> }

\* Descriptions: empty (undocumented) or non-empty.
Docs == { <<>>, <<"d">> }

\* c repeated n times
Rep(c, n) == [k \in 1..n |-> c]

\* kruntime.Pair
Pair(name, doc) == [Name |-> name, Doc |-> doc]

\* A kruntime.KubeTypes value as ParseDocumentationFrom builds it: pair 1 is
\* the struct itself, the others its fields.  Type i of a package is named
\* A, AA, ...; field j of a type f, ff, ... (names are unique, as in Go).
TypesAt(i) ==
    UNION { { [j \in 1..n |-> Pair(IF j = 1 THEN Rep("A", i) ELSE Rep("f", j - 1), d[j])]
              : d \in [1..n -> Docs] }
            : n \in 1..MaxPairs }

RECURSIVE RecsFrom(_, _)
RecsFrom(i, budget) ==
    { <<>> } \cup
    UNION { { <<t>> \o rest : rest \in RecsFrom(i + 1, budget - Len(t)) }
            : t \in { u \in TypesAt(i) : Len(u) <= budget } }

\* The docsForTypes collections a caller can hand in.
RecordsSet == RecsFrom(1, MaxPairs)


\* ------------------------------------------------- library calls (kruntime)

\* kruntime.VerifySwaggerDocsExist(docsForTypes, buf), called at
\* swaggerdocs.go:45: counts the pairs (the struct's own and its fields')
\* whose Doc is empty and writes one line per such pair to buf.  It does
\* not change docsForTypes.  Its only error is a failed write of those
\* lines, for which it returns (-1, err).
MissingIn(kubeType) == Cardinality({ j \in 1..Len(kubeType) : kubeType[j].Doc = <<>> })

RECURSIVE MissingDocs(_)
MissingDocs(kubeTypes) ==
    IF kubeTypes = <<>> THEN 0
    ELSE MissingIn(Head(kubeTypes)) + MissingDocs(Tail(kubeTypes))

\* A plausible slip: the failed write is swallowed.
VerifySwaggerDocsExist_swallow(kubeTypes, writeFails) ==
    [rc |-> MissingDocs(kubeTypes), err |-> FALSE]

VerifySwaggerDocsExist(kubeTypes, writeFails) ==
    LET missing == MissingDocs(kubeTypes)
    IN  IF missing > 0 /\ writeFails
        THEN [rc |-> -1, err |-> TRUE]
        ELSE [rc |-> missing, err |-> FALSE]

IsDocful(pair) == pair.Doc # <<>>

\* One line of the map body: two tabs, "name": "doc",
MapLine(pair) ==
    << "\t", "\t", "\"" >> \o pair.Name \o << "\": \"" >> \o pair.Doc \o << "\",", "\n" >>

RECURSIVE MapBody(_)
MapBody(pairs) ==
    IF pairs = <<>> THEN <<>> ELSE MapLine(Head(pairs)) \o MapBody(Tail(pairs))

\* The text WriteSwaggerDocFunc emits for one struct with documentation:
\* the map variable and the SwaggerDoc method, as written before gofmt.
FuncText(structName, docfulTypes) ==
    << "var map_" >> \o structName \o << " = map[string]string", " ", "{", "\n" >>
    \o MapBody(docfulTypes)
    \o << "}", "\n", "\n" >>
    \o << "func (" >> \o structName \o << ") SwaggerDoc() map[string]string {", "\n" >>
    \o << "\t", "return map_" >> \o structName \o << "\n", "}", "\n", "\n" >>

\* A plausible slip: the struct name is read and left in place.
EraseName_keep(kubeType) == kubeType

\* "kubeType[0].Name = \"\"": the struct's own pair loses its name, in the
\* caller's collection (a KubeTypes is a slice; the loop variable shares
\* its backing array).  This is the mutation swaggerdocs.go:63 speaks of.
EraseName(kubeType) == [kubeType EXCEPT ![1].Name = <<>>]

\* kruntime.WriteSwaggerDocFunc(docsForTypes, buf), called at
\* swaggerdocs.go:84.  For each type in order: remember the struct name,
\* erase it in place, keep the pairs with a non-empty Doc, skip the type
\* when none is left, else write its text.  A failed write ends the loop
\* with an error; the types visited so far stay erased.
RECURSIVE WriteFrom(_, _, _, _)
WriteFrom(kubeTypes, i, text, writeFails) ==
    IF i > Len(kubeTypes)
    THEN [types |-> kubeTypes, text |-> text, err |-> FALSE]
    ELSE LET structName  == kubeTypes[i][1].Name
             erased      == EraseName(kubeTypes[i])
             docfulTypes == SelectSeq(erased, IsDocful)
             types2      == [kubeTypes EXCEPT ![i] = erased]
         IN  IF docfulTypes = <<>>
             THEN WriteFrom(types2, i + 1, text, writeFails)
             ELSE IF writeFails
             THEN [types |-> types2, text |-> text, err |-> TRUE]
             ELSE WriteFrom(types2, i + 1, text \o FuncText(structName, docfulTypes), writeFails)

WriteSwaggerDocFunc(kubeTypes, writeFails) == WriteFrom(kubeTypes, 1, <<>>, writeFails)

\* ------------------------------------------------------ format.Source

\* Index of the first "\n" at or after i, or 0.
RECURSIVE LineEnd(_, _)
LineEnd(text, i) ==
    IF i > Len(text) THEN 0
    ELSE IF text[i] = "\n" THEN i
    ELSE LineEnd(text, i + 1)

\* The only syntax error the emitted text can have: the package clause must
\* name an identifier.  Text written for a struct whose name is already
\* erased ("var map_ =", "func () SwaggerDoc()") still parses: an empty
\* receiver list is a type error, not a syntax error.
Parses(text) ==
    /\ Len(text) >= 3
    /\ text[1] = "package "
    /\ LET e == LineEnd(text, 2)
       IN  /\ e > 2
           /\ \A k \in 2..(e - 1) : text[k] \in IdentChars

\* gofmt's layout of text that parses: no blank before the brace of a
\* composite literal, one tab of indentation inside it, runs of blank lines
\* cut to one blank line.
Dropped(text, i) ==
    \/ text[i] = " "  /\ i < Len(text) /\ text[i + 1] = "{"
    \/ text[i] = "\t" /\ i < Len(text) /\ text[i + 1] = "\t"
    \/ text[i] = "\n" /\ i + 2 <= Len(text) /\ text[i + 1] = "\n" /\ text[i + 2] = "\n"

RECURSIVE Layout(_, _, _)
Layout(text, lo, hi) ==
    IF lo > hi THEN <<>>
    ELSE IF lo = hi THEN (IF Dropped(text, lo) THEN <<>> ELSE << text[lo] >>)
    ELSE LET mid == (lo + hi) \div 2
         IN  Layout(text, lo, mid) \o Layout(text, mid + 1, hi)

Gofmt(text) == Layout(text, 1, Len(text))

\* format.Source(src), called at swaggerdocs.go:91.
FormatSource(src) ==
    IF Parses(src)
    THEN [out |-> Gofmt(src), err |-> FALSE]
    ELSE [out |-> <<>>, err |-> TRUE]


\* ---------------------------------------------------------------- state

VARIABLES
    parsed,        \* what the package's types files parse to
    docsForTypes,  \* the caller's in-memory []kruntime.KubeTypes
    disk,          \* the file at filePath: [exists, data]
    diskFrom,      \* where the file's bytes come from
    checkWriteErr, \* VerifySwaggerDocsExist returns an error (swaggerdocs.go:46):
                   \* its write of the report fails
    docWriteErr,   \* WriteSwaggerDocFunc returns an error (swaggerdocs.go:84):
                   \* its write of a struct's text fails
    last,          \* the last call of verifySwaggerDocs / generateSwaggerDocs
    prev           \* the generateSwaggerDocs call that the last call repeats

vars == << parsed, docsForTypes, disk, diskFrom, checkWriteErr, docWriteErr, last, prev >>

NoFile == [exists |-> FALSE, data |-> <<>>]
File(data) == [exists |-> TRUE, data |-> data]

\* ------------------------------------------------- generateSwaggerDocs

\* A plausible slip: the end marker is not written.
Assemble_noFooter(packageName, text) ==
    << "package " >> \o packageName \o << "\n" >> \o headerContent \o text

\* swaggerdocs.go:79-88: what the buffer holds when format.Source is
\* called: the package line, the header, WriteSwaggerDocFunc's text, the
\* footer.
Assemble(packageName, text) ==
    << "package " >> \o packageName \o << "\n" >> \o headerContent \o text \o footerContent

\* swaggerdocs.go:78-97.  types: docsForTypes after the call; fmtCalled:
\* format.Source was called; fmtIn: what it was given.
generateSwaggerDocs(packageName, kubeTypes, writeFails) ==
    LET w == WriteSwaggerDocFunc(kubeTypes, writeFails)
    IN  IF w.err
        THEN [types |-> w.types, err |-> "RenderError", out |-> <<>>,
              fmtCalled |-> FALSE, fmtIn |-> <<>>]
        ELSE LET buf == Assemble(packageName, w.text)
                 f   == FormatSource(buf)
             IN  IF f.err
                 THEN [types |-> w.types, err |-> "FormatError", out |-> <<>>,
                       fmtCalled |-> TRUE, fmtIn |-> buf]
                 ELSE [types |-> w.types, err |-> "none", out |-> f.out,
                       fmtCalled |-> TRUE, fmtIn |-> buf]

NoGen == [types |-> <<>>, err |-> "none", out |-> <<>>, fmtCalled |-> FALSE, fmtIn |-> <<>>]

\* --------------------------------------------------- verifySwaggerDocs

\* A plausible slip: missing docs are fatal whatever enforceComments says.
MissingDocsFatal_always(rc, enforceComments) == rc > 0

\* A plausible slip: missing docs only ever warn.
MissingDocsFatal_never(rc, enforceComments) == FALSE

\* swaggerdocs.go:49-51: missing docs end the call only under enforceComments.
MissingDocsFatal(rc, enforceComments) == rc > 0 /\ enforceComments

\* A plausible slip: a file that cannot be read counts as an empty one.
ReadFile_lenient(file) == [data |-> file.data, err |-> FALSE]

\* swaggerdocs.go:58-61: ioutil.ReadFile(filePath).
ReadFile(file) == [data |-> file.data, err |-> ~file.exists]

\* A plausible slip: only the lengths are compared.
DeepEqual_len(data, generatedData) == Len(data) = Len(generatedData)

\* swaggerdocs.go:69: reflect.DeepEqual on two byte slices.
DeepEqual(data, generatedData) == data = generatedData

\* A plausible slip: the data is generated before the file is read.
verifySwaggerDocs_genFirst(packageName, file, kubeTypes, enforceComments, chkFails, docFails) ==
    LET c == VerifySwaggerDocsExist(kubeTypes, chkFails)
        g == generateSwaggerDocs(packageName, kubeTypes, docFails)
        r == ReadFile(file)
    IN  IF c.err
        THEN [types |-> kubeTypes, err |-> "CheckError", rc |-> c.rc,
              stages |-> << "check" >>, warned |-> FALSE, gen |-> NoGen]
        ELSE IF MissingDocsFatal(c.rc, enforceComments)
        THEN [types |-> kubeTypes, err |-> "MissingDocsError", rc |-> c.rc,
              stages |-> << "check" >>, warned |-> FALSE, gen |-> NoGen]
        ELSE IF g.err # "none"
        THEN [types |-> g.types, err |-> g.err, rc |-> c.rc,
              stages |-> << "check", "generate" >>, warned |-> c.rc > 0, gen |-> g]
        ELSE IF r.err
        THEN [types |-> g.types, err |-> "ReadError", rc |-> c.rc,
              stages |-> << "check", "generate", "read" >>, warned |-> c.rc > 0, gen |-> g]
        ELSE [types |-> g.types,
              err |-> IF DeepEqual(r.data, g.out) THEN "Success" ELSE "StaleError",
              rc |-> c.rc, stages |-> << "check", "generate", "read", "compare" >>,
              warned |-> c.rc > 0, gen |-> g]

\* swaggerdocs.go:42-74.  stages lists the stages that ran, in order; rc is
\* VerifySwaggerDocsExist's count; warned: klog.Warningf was called; gen:
\* what generateSwaggerDocs returned, if it was called; types: docsForTypes
\* after the call.
verifySwaggerDocs(packageName, file, kubeTypes, enforceComments, chkFails, docFails) ==
    LET c == VerifySwaggerDocsExist(kubeTypes, chkFails)
        r == ReadFile(file)
        g == generateSwaggerDocs(packageName, kubeTypes, docFails)
    IN  IF c.err
        THEN [types |-> kubeTypes, err |-> "CheckError", rc |-> c.rc,
              stages |-> << "check" >>, warned |-> FALSE, gen |-> NoGen]
        ELSE IF MissingDocsFatal(c.rc, enforceComments)
        THEN [types |-> kubeTypes, err |-> "MissingDocsError", rc |-> c.rc,
              stages |-> << "check" >>, warned |-> FALSE, gen |-> NoGen]
        ELSE IF r.err
        THEN [types |-> kubeTypes, err |-> "ReadError", rc |-> c.rc,
              stages |-> << "check", "read" >>, warned |-> c.rc > 0, gen |-> NoGen]
        ELSE IF g.err # "none"
        THEN [types |-> g.types, err |-> g.err, rc |-> c.rc,
              stages |-> << "check", "read", "generate" >>, warned |-> c.rc > 0, gen |-> g]
        ELSE IF ~DeepEqual(r.data, g.out)
        THEN [types |-> g.types, err |-> "StaleError", rc |-> c.rc,
              stages |-> << "check", "read", "generate", "compare" >>,
              warned |-> c.rc > 0, gen |-> g]
        ELSE [types |-> g.types, err |-> "Success", rc |-> c.rc,
              stages |-> << "check", "read", "generate", "compare" >>,
              warned |-> c.rc > 0, gen |-> g]

\* -------------------------------------------------------------- actions

\* The file's history: "none" (no file written yet), "written"
\* (it holds what generateSwaggerDocs(pkg, recsIn) returned; recsOut is the
\* collection as that call left it), "edited" (one character of a file
\* changed after verifySwaggerDocs(pkg, ..., recsIn, enforce) succeeded on it).
NoOrigin ==
    [kind |-> "none", pkg |-> <<>>, enforce |-> FALSE, recsIn |-> <<>>, recsOut |-> <<>>]

NoCall ==
    [op |-> "none", pkg |-> <<>>, enforce |-> FALSE, recsIn |-> <<>>, recsOut |-> <<>>,
     diskIn |-> NoFile, diskOut |-> NoFile, diskFrom |-> NoOrigin, rc |-> 0,
     err |-> "none", stages |-> <<>>, warned |-> FALSE, gen |-> NoGen]

Init ==
    /\ parsed \in RecordsSet
    /\ docsForTypes = parsed
    /\ disk = NoFile
    /\ diskFrom = NoOrigin
    /\ checkWriteErr \in BOOLEAN
    /\ docWriteErr \in BOOLEAN
    /\ last = NoCall
    /\ prev = NoCall

\* A plausible slip: a stale file is repaired instead of reported.
VerifyCall_repair(packageName, enforceComments) ==
    LET v == verifySwaggerDocs(packageName, disk, docsForTypes, enforceComments,
                               checkWriteErr, docWriteErr)
    IN  /\ docsForTypes' = v.types
        /\ disk' = IF v.err = "StaleError" THEN File(v.gen.out) ELSE disk
        /\ last' = [op |-> "verify", pkg |-> packageName, enforce |-> enforceComments,
                    recsIn |-> docsForTypes, recsOut |-> v.types, diskIn |-> disk,
                    diskOut |-> disk', diskFrom |-> diskFrom, rc |-> v.rc,
                    err |-> v.err, stages |-> v.stages, warned |-> v.warned, gen |-> v.gen]
        /\ prev' = NoCall
        /\ UNCHANGED << parsed, diskFrom, checkWriteErr, docWriteErr >>

\* A caller runs verifySwaggerDocs on its collection and the file.  Nothing
\* in swaggerdocs.go:42-74 writes: the file is as it was.
VerifyCall(packageName, enforceComments) ==
    LET v == verifySwaggerDocs(packageName, disk, docsForTypes, enforceComments,
                               checkWriteErr, docWriteErr)
    IN  /\ docsForTypes' = v.types
        /\ disk' = disk
        /\ last' = [op |-> "verify", pkg |-> packageName, enforce |-> enforceComments,
                    recsIn |-> docsForTypes, recsOut |-> v.types, diskIn |-> disk,
                    diskOut |-> disk', diskFrom |-> diskFrom, rc |-> v.rc,
                    err |-> v.err, stages |-> v.stages, warned |-> v.warned, gen |-> v.gen]
        /\ prev' = NoCall
        /\ UNCHANGED << parsed, diskFrom, checkWriteErr, docWriteErr >>

CallVerify == \E p \in PackageNames, e \in BOOLEAN : VerifyCall(p, e)

\* A caller runs generateSwaggerDocs on its collection.  prev keeps the call
\* before it when that was generateSwaggerDocs with the same packageName.
GenerateCall(packageName) ==
    LET g == generateSwaggerDocs(packageName, docsForTypes, docWriteErr)
    IN  /\ docsForTypes' = g.types
        /\ disk' = disk
        /\ last' = [op |-> "generate", pkg |-> packageName, enforce |-> FALSE,
                    recsIn |-> docsForTypes, recsOut |-> g.types, diskIn |-> disk,
                    diskOut |-> disk', diskFrom |-> NoOrigin, rc |-> 0,
                    err |-> IF g.err = "none" THEN "Success" ELSE g.err,
                    stages |-> << "generate" >>, warned |-> FALSE, gen |-> g]
        /\ prev' = IF last.op = "generate" /\ last.pkg = packageName
                   THEN [NoCall EXCEPT !.op = "generate", !.pkg = last.pkg,
                                       !.recsIn = last.recsIn, !.recsOut = last.recsOut,
                                       !.err = last.err,
                                       !.gen = [NoGen EXCEPT !.out = last.gen.out]]
                   ELSE NoCall
        /\ UNCHANGED << parsed, diskFrom, checkWriteErr, docWriteErr >>

CallGenerate == \E p \in PackageNames : GenerateCall(p)

\* The caller of generateSwaggerDocs writes the bytes it got to the file.
WriteFile ==
    /\ last.op = "generate"
    /\ last.err = "Success"
    /\ disk' = File(last.gen.out)
    /\ diskFrom' = [kind |-> "written", pkg |-> last.pkg, enforce |-> FALSE,
                    recsIn |-> last.recsIn, recsOut |-> last.recsOut]
    /\ << disk', diskFrom' >> # << disk, diskFrom >>
    /\ UNCHANGED << parsed, docsForTypes, checkWriteErr, docWriteErr, last, prev >>

\* The caller parses the types files again: a fresh collection, equal to
\* the one it started with.
Reparse ==
    /\ docsForTypes # parsed
    /\ docsForTypes' = parsed
    /\ UNCHANGED << parsed, disk, diskFrom, checkWriteErr, docWriteErr, last, prev >>

\* The character an edit puts in place of c: another one.
EditChar(c) == IF c = "A" THEN "d" ELSE "A"

\* One character of a file that verifySwaggerDocs has just accepted is
\* changed.
EditFile ==
    /\ last.op = "verify"
    /\ last.err = "Success"
    /\ diskFrom.kind # "edited"
    /\ \E i \in 1..Len(disk.data) :
          disk' = File([disk.data EXCEPT ![i] = EditChar(disk.data[i])])
    /\ diskFrom' = [kind |-> "edited", pkg |-> last.pkg, enforce |-> last.enforce,
                    recsIn |-> last.recsIn, recsOut |-> last.recsOut]
    /\ UNCHANGED << parsed, docsForTypes, checkWriteErr, docWriteErr, last, prev >>

\* The call after the edit: the same packageName and enforceComments.
VerifyAgain ==
    /\ diskFrom.kind = "edited"
    /\ last.diskFrom.kind # "edited"
    /\ VerifyCall(diskFrom.pkg, diskFrom.enforce)

Pristine == diskFrom.kind # "edited"

Next ==
    \/ CallVerify
    \/ CallGenerate
    \/ WriteFile
    \/ Reparse

Spec == Init /\ [][Next]_vars

\* The runs in which an accepted file is edited and verified again.
NextEdit ==
    \/ Pristine /\ CallVerify
    \/ Pristine /\ CallGenerate
    \/ Pristine /\ WriteFile
    \/ Reparse
    \/ EditFile
    \/ VerifyAgain

SpecEdit == Init /\ [][NextEdit]_vars

\* --------------------------------------------------------------- claims

IsVerify == last.op = "verify"
IsGenerate == last.op = "generate"

\* The completeness check of the last call reported missing descriptions:
\* VerifySwaggerDocsExist returned a count above 0 and no error.
Reported == MissingDocs(last.recsIn) > 0 /\ ~checkWriteErr

\* The completeness-check stage of the last call let the call through.
CheckPassed ==
    MissingDocs(last.recsIn) = 0 \/ (~checkWriteErr /\ ~last.enforce)

\* Some struct of the collection has a name and a non-empty description:
\* generateSwaggerDocs writes text for it and erases its name.
DocfulNamed(kubeTypes) ==
    \E i \in 1..Len(kubeTypes) :
        /\ kubeTypes[i][1].Name # <<>>
        /\ \E j \in 1..Len(kubeTypes[i]) : kubeTypes[i][j].Doc # <<>>

\* C1: when the completeness check reports missing descriptions and
\* enforceComments is true, verify fails with MissingDocsError after the
\* check stage alone: the file is not read, the generator is not called
\* (the collection is untouched) and nothing is compared.
C1_MissingDocsEnforced ==
    (IsVerify /\ Reported /\ last.enforce) =>
        /\ last.err = "MissingDocsError"
        /\ last.rc = MissingDocs(last.recsIn)
        /\ last.stages = << "check" >>
        /\ last.gen = NoGen
        /\ last.recsOut = last.recsIn

\* C1's case: missing docs under enforceComments, with a file on disk that
\* would have been read.
C1_Witness ==
    /\ IsVerify /\ Reported /\ last.enforce
    /\ last.diskIn.exists
    /\ last.err = "MissingDocsError"

\* C2 as stated: verify on a nonexistent file fails with ReadError, whatever
\* enforceComments and the collection are.
C2_Original == (IsVerify /\ ~last.diskIn.exists) => last.err = "ReadError"

\* C2 amended: verify on a nonexistent file fails with ReadError exactly
\* when the completeness-check stage lets the call through; when it reports
\* missing descriptions under enforceComments the call has already failed
\* with MissingDocsError.
C2_ReadErrorAfterCheck ==
    (IsVerify /\ ~last.diskIn.exists) =>
        /\ CheckPassed => (last.err = "ReadError" /\ last.stages = << "check", "read" >>)
        /\ (Reported /\ last.enforce) => last.err = "MissingDocsError"
        /\ last.err = "ReadError" => CheckPassed

\* C2's case: no file, missing descriptions tolerated, ReadError.
C2_Witness ==
    /\ IsVerify /\ ~last.diskIn.exists
    /\ MissingDocs(last.recsIn) > 0 /\ ~last.enforce
    /\ last.err = "ReadError"

\* The file holds what generateSwaggerDocs returned for the packageName of
\* the last call.
RoundTrip ==
    /\ IsVerify
    /\ last.diskFrom.kind = "written"
    /\ last.diskFrom.pkg = last.pkg

Repeated == IsGenerate /\ prev.op = "generate"

AfterEdit ==
    /\ IsVerify
    /\ last.diskFrom.kind = "edited"
    /\ last.pkg = last.diskFrom.pkg
    /\ last.enforce = last.diskFrom.enforce
    /\ last.recsIn \in { last.diskFrom.recsIn, last.diskFrom.recsOut }

\* C5: after verify succeeded on a file, one changed character makes the
\* next verify with the same packageName, records and enforceComments fail
\* with StaleError.
C5_StaleAfterEdit == AfterEdit => last.err = "StaleError"

\* C5's case: the edited file is verified on the collection the first call
\* left behind, and on a documented collection.
C5_Witness ==
    /\ AfterEdit
    /\ last.recsIn # last.diskFrom.recsIn
    /\ last.gen.out # <<>>
    /\ last.err = "StaleError"

\* C6: when the completeness check reports missing descriptions and
\* enforceComments is false, verify warns and goes on: it reads the file,
\* generates when the file is readable, compares when generation
\* succeeded, and succeeds when the bytes are equal.
C6_MissingDocsTolerated ==
    (IsVerify /\ Reported /\ ~last.enforce) =>
        /\ last.err # "MissingDocsError"
        /\ last.warned
        /\ Len(last.stages) >= 2 /\ last.stages[2] = "read"
        /\ last.diskIn.exists => (Len(last.stages) >= 3 /\ last.stages[3] = "generate")
        /\ (last.diskIn.exists /\ last.gen.err = "none") =>
               (Len(last.stages) = 4 /\ last.stages[4] = "compare")
        /\ (last.diskIn.exists /\ last.gen.err = "none" /\ last.diskIn.data = last.gen.out) =>
               last.err = "Success"

\* C6's case: missing descriptions, no enforcement, a matching file.
C6_Witness ==
    /\ IsVerify /\ Reported /\ ~last.enforce
    /\ last.diskIn.exists
    /\ last.err = "Success"

Pipeline == << "check", "read", "generate", "compare" >>

\* C9: the stages of verify run at most once, in the order check, read,
\* generate, compare, each only if the ones before did not fail; the error
\* is that of the last stage run; the collection is changed only by the
\* generate stage, which does not run when the check or the read failed.
C9_StageOrder ==
    IsVerify =>
        /\ Len(last.stages) \in 1..4
        /\ last.stages = SubSeq(Pipeline, 1, Len(last.stages))
        /\ Len(last.stages) = 1 <=> last.err \in { "CheckError", "MissingDocsError" }
        /\ Len(last.stages) = 2 <=> last.err = "ReadError"
        /\ Len(last.stages) = 3 <=> last.err \in { "RenderError", "FormatError" }
        /\ Len(last.stages) = 4 <=> last.err \in { "StaleError", "Success" }
        /\ last.err = "ReadError" <=> (CheckPassed /\ ~last.diskIn.exists)
        /\ last.recsOut # last.recsIn => Len(last.stages) >= 3
        /\ ~last.diskIn.exists => (last.recsOut = last.recsIn /\ last.gen = NoGen)

\* C9's case: the read failed on a collection that generation would have
\* changed.
C9_Witness ==
    /\ IsVerify /\ last.err = "ReadError"
    /\ DocfulNamed(last.recsIn)
    /\ last.recsOut = last.recsIn

\* What WriteSwaggerDocFunc writes for the collection of the last call.
Rendered == WriteSwaggerDocFunc(last.recsIn, FALSE).text

\* C10: generate hands format.Source the package line, the header ending
\* with the start marker, the renderer's text and the end-marker line, in
\* this order, and returns what format.Source returns; when the renderer
\* fails format.Source is not called, and on either failure no bytes are
\* returned.
C10_Assembly ==
    IsGenerate =>
        /\ last.gen.fmtCalled <=> last.err # "RenderError"
        /\ last.gen.fmtCalled =>
               /\ last.gen.fmtIn =
                      << "package " >> \o last.pkg \o << "\n",
                         headerContent[1], "// AUTO-GENERATED FUNCTIONS START HERE\n" >>
                      \o Rendered \o << "// AUTO-GENERATED FUNCTIONS END HERE\n" >>
               /\ last.err = "Success" => last.gen.out = Gofmt(last.gen.fmtIn)
        /\ last.err = "RenderError" <=>
               (docWriteErr /\ \E i \in 1..Len(last.recsIn) :
                                 \E j \in 1..Len(last.recsIn[i]) : last.recsIn[i][j].Doc # <<>>)
        /\ last.err = "FormatError" <=> (last.err # "RenderError" /\ last.pkg = <<>>)
        /\ last.err \in { "RenderError", "FormatError" } => last.gen.out = <<>>
        /\ last.err \in { "Success", "RenderError", "FormatError" }

\* C10's case: a documented collection was rendered and formatted.
C10_Witness ==
    /\ IsGenerate /\ last.err = "Success"
    /\ Rendered # <<>>
    /\ last.gen.out # last.gen.fmtIn

====
